---- MODULE Spec2Model ----
(***************************************************************************)
(* duq-cli: the backup store (BackupManager: createBackup, restoreBackup,  *)
(* listBackups over an index of per-file lists and a global history) and   *)
(* the chain executor (commands.js: chain and the six operations it calls).*)
(***************************************************************************)
EXTENDS Integers, Sequences, FiniteSets, TLC

(***************************************************************************)
(* Bounds of the model.                                                    *)
(***************************************************************************)
\* calls of createBackup in the API-level specification Spec
MaxBackups == 2
\* calls of createBackup in the burst specification SpecBurst (one file)
MaxBurst == 12
\* calls of createBackup in the long-run specification SpecLong
MaxLong == 101
\* backups of the second file in SpecLong
MaxOther == 1
\* in SpecLong the second file is backed up only after every so many
\* backups of the first
OtherEvery == 50
\* clock ticks during the burst of SpecBurst
MaxTicks == 3
\* user writes (overwrite, delete) in one behaviour
MaxWrites == 1
\* tokens of a chain's step string
MaxSteps == 2
\* calls of createBackup that return an id in SpecIO
MaxIOBackups == 2
\* calls of createBackup that return an id in SpecLoad
MaxLoadBackups == 2
\* completed calls of createBackup in SpecCrash (one file, past its cap)
MaxCrashBackups == 11

(***************************************************************************)
(* Program constants.                                                      *)
(***************************************************************************)
\* per-file list cap: if (this.index.files[absolutePath].length > 10)
MaxFileBackups == 10
\* global history cap: if (this.index.history.length > 100)
MaxHistory == 100

(***************************************************************************)
(* Values.                                                                 *)
(***************************************************************************)
\* file contents
Contents == {"A", "B"}
\* the assistant's answer as text, when it is what gets written to a report
RawResponse == "raw response"
RawError == "Error: Unable to get a response from Amazon Q."
\* fs value of a path that does not exist / that is a directory
NoFile == "<absent>"
IsDir == "<dir>"
\* JavaScript null for a path argument that is left out
Null == "<null>"
\* JavaScript null for a backup id that is left out
NullId == <<"", -1>>

\* absolute paths of the modelled file system; cwd is /w
FileA == "/w/a.js"
FileB == "/w/b.js"
DirD == "/w/proj"
Gone == "/w/gone.js"
AbsFiles == {FileA, FileB}
AbsPaths == {FileA, FileB, DirD, Gone}
\* the spellings a caller may pass for a file
PathArgs == {"a.js", FileB}
Operations == {"docstrings", "x"}

\* path.resolve(p): a relative spelling is resolved against cwd
PathResolve(p) ==
  CASE p = "a.js" -> FileA
    [] p = "b.js" -> FileB
    [] p = "proj" -> DirD
    [] p = "gone.js" -> Gone
    [] OTHER -> p

\* crypto.createHash('md5').update(absolutePath).digest('hex')
FileHash(abs) ==
  CASE abs = FileA -> "0cc1"
    [] abs = FileB -> "92eb"
    [] OTHER -> "d41d"

\* `${fileHash}-${timestamp}`
BackupId(abs, ts) == <<FileHash(abs), ts>>

\* Array.prototype.slice(0, n) and slice(n)
SliceTo(s, n) == SubSeq(s, 1, IF Len(s) < n THEN Len(s) ELSE n)
SliceFrom(s, n) == SubSeq(s, n + 1, Len(s))

VARIABLES
  fs,         \* the user's files: [AbsPaths -> Contents \cup {NoFile, IsDir}]
  blobs,      \* the backup directory: a function from the ids present to content
  index,      \* this.index: [files: path -> list, history: list]
  diskIndex,  \* the parsed content of backup-index.json
  now,        \* the wall clock in milliseconds, as new Date() reads it
  last,       \* the last call made and what it returned
  created,    \* log of the successful createBackup calls, newest first
  writes,     \* number of user writes so far
  chain,      \* the chain executor's run
  peer        \* a second process of the tool: its position and its this.index

vars == <<fs, blobs, index, diskIndex, now, last, created, writes, chain, peer>>

EmptyIndex == [files |-> [p \in {} |-> <<>>], history |-> <<>>]
\* the in-memory index is an object with a files mapping and a history list
WellFormed(idx) == {"files", "history"} \subseteq DOMAIN idx
NoCall == [call |-> "none"]
\* no second process has been started
PeerOff == [pc |-> "off"]
ChainIdle ==
  [status |-> "idle", target |-> Null, seq |-> <<>>, i |-> 0,
   isDirectory |-> FALSE, continueOnError |-> FALSE, output |-> Null,
   log |-> <<>>]

\* the per-file list of a path, [] when the path has no key (files[p] || [])
FileList(idx, abs) ==
  IF abs \in DOMAIN idx.files THEN idx.files[abs] ELSE <<>>

HasBlob(id) == id \in DOMAIN blobs

\* the path is a regular file
IsFile(abs) == fs[abs] \notin {NoFile, IsDir}

\* the successful backups of a file, newest first
CreatedOf(abs) == SelectSeq(created, LAMBDA e : e.filePath = abs)

(***************************************************************************)
(* BackupManager.createBackup                                              *)
(***************************************************************************)
\* the entry unshifted onto the per-file list / onto the global history
FileEntry(id, ts, operation) ==
  [id |-> id, timestamp |-> ts, operation |-> operation]
HistoryEntry(id, abs, ts, operation) ==
  [id |-> id, filePath |-> abs, timestamp |-> ts, operation |-> operation]

\* fs.copySync(absolutePath, backupPath): the blob named id now holds content
CopyToBlob(bl, id, content) ==
  [b \in DOMAIN bl \cup {id} |-> IF b = id THEN content ELSE bl[b]]

\* faulty variant: the entry is pushed onto the end of the per-file list
UnshiftFilePushed(files, abs, entry) ==
  [p \in DOMAIN files \cup {abs} |->
     IF p = abs
     THEN (IF abs \in DOMAIN files THEN files[abs] ELSE <<>>) \o <<entry>>
     ELSE files[p]]

\* faulty variant: the lists of the other files are dropped
UnshiftFileAlone(files, abs, entry) ==
  [p \in {abs} |->
     <<entry>> \o (IF abs \in DOMAIN files THEN files[abs] ELSE <<>>)]

\* files[absolutePath].unshift(entry), creating the list when the key is new
UnshiftFile(files, abs, entry) ==
  [p \in DOMAIN files \cup {abs} |->
     IF p = abs
     THEN <<entry>> \o (IF abs \in DOMAIN files THEN files[abs] ELSE <<>>)
     ELSE files[p]]

\* faulty variant: the entry is not put on the history
UnshiftHistoryOmitted(history, entry) == history

\* history.unshift(entry)
UnshiftHistory(history, entry) == <<entry>> \o history

\* faulty variant: the history is cut at the wrong end
TrimHistoryOldest(history) ==
  IF Len(history) > MaxHistory THEN SliceFrom(history, 1) ELSE history

\* if (history.length > 100) history = history.slice(0, 100)
TrimHistory(history) ==
  IF Len(history) > MaxHistory THEN SliceTo(history, MaxHistory) ELSE history

\* faulty variant: off by one: the first evicted entry keeps its blob
ToRemoveOffByOne(flist) ==
  IF Len(flist) > MaxFileBackups THEN SliceFrom(flist, MaxFileBackups + 1) ELSE <<>>

\* toRemove = files[absolutePath].slice(10), when the list is longer than 10
ToRemove(flist) ==
  IF Len(flist) > MaxFileBackups THEN SliceFrom(flist, MaxFileBackups) ELSE <<>>

\* files[absolutePath] = files[absolutePath].slice(0, 10)
TrimFileList(flist) ==
  IF Len(flist) > MaxFileBackups THEN SliceTo(flist, MaxFileBackups) ELSE flist

\* toRemove.forEach(backup => fs.removeSync(join(backupDir, backup.id)))
RemoveBlobs(bl, toRemove) ==
  LET ids == {toRemove[k].id : k \in 1..Len(toRemove)}
  IN [b \in DOMAIN bl \ ids |-> bl[b]]

\* saveIndex(): the index file is rewritten unless the write throws, and the
\* error is logged and swallowed
SaveIndex(idx, saveOk) == IF saveOk THEN idx ELSE diskIndex

\* createBackup(filePath, operation) at clock reading ts. copyOk and saveOk
\* say whether fs.copySync and fs.writeFileSync succeed; memory is this.index
\* of the process that makes the call. The result holds the new store and the
\* value returned.
createBackupOn(memory, filePath, operation, ts, copyOk, saveOk) ==
  LET absolutePath == PathResolve(filePath)
      backupId == BackupId(absolutePath, ts)
  IN IF ~IsFile(absolutePath) \/ ~copyOk
     THEN \* copySync throws: caught at line 125, nothing was changed
          [index |-> memory, blobs |-> blobs, diskIndex |-> diskIndex,
           ret |-> [ok |-> FALSE], id |-> NullId]
     ELSE IF ~WellFormed(memory)
     THEN \* the blob was copied; this.index.files[absolutePath] at line 79
          \* throws a TypeError, caught at line 125
          [index |-> memory,
           blobs |-> CopyToBlob(blobs, backupId, fs[absolutePath]),
           diskIndex |-> diskIndex, ret |-> [ok |-> FALSE], id |-> NullId]
     ELSE LET blobs1 == CopyToBlob(blobs, backupId, fs[absolutePath])
              files1 == UnshiftFile(memory.files, absolutePath,
                                    FileEntry(backupId, ts, operation))
              history1 == TrimHistory(UnshiftHistory(memory.history,
                            HistoryEntry(backupId, absolutePath, ts, operation)))
              blobs2 == RemoveBlobs(blobs1, ToRemove(files1[absolutePath]))
              files2 == [files1 EXCEPT ![absolutePath] = TrimFileList(@)]
              index2 == [files |-> files2, history |-> history1]
          IN [index |-> index2, blobs |-> blobs2,
              diskIndex |-> SaveIndex(index2, saveOk),
              ret |-> [ok |-> TRUE], id |-> backupId]

\* faulty variant: the lists are updated before the blob is copied, so a
\* failed copy leaves the new entry in this.index
createBackupListsFirst(filePath, operation, ts, copyOk, saveOk) ==
  LET r == createBackupOn(index, filePath, operation, ts, TRUE, saveOk)
  IN IF copyOk THEN r
     ELSE [index |-> r.index, blobs |-> blobs, diskIndex |-> diskIndex,
           ret |-> [ok |-> FALSE], id |-> NullId]

\* the call in a process whose this.index is the variable index
createBackup(filePath, operation, ts, copyOk, saveOk) ==
  createBackupOn(index, filePath, operation, ts, copyOk, saveOk)

\* one createBackup call on the shared store
DoCreateBackup(filePath, operation, copyOk, saveOk) ==
  LET r == createBackup(filePath, operation, now, copyOk, saveOk)
      abs == PathResolve(filePath)
  IN /\ index' = r.index
     /\ blobs' = r.blobs
     /\ diskIndex' = r.diskIndex
     /\ last' = [call |-> "createBackup", filePath |-> filePath,
                 operation |-> operation, ok |-> r.ret.ok, id |-> r.id,
                 copyOk |-> copyOk, saveOk |-> saveOk,
                 before |-> [index |-> index, diskIndex |-> diskIndex,
                             blobs |-> blobs]]
     /\ created' = IF r.ret.ok
                   THEN <<[id |-> r.id, filePath |-> abs, timestamp |-> now,
                           operation |-> operation, content |-> fs[abs]]>>
                        \o created
                   ELSE created
     /\ UNCHANGED <<fs, now, writes, chain, peer>>

(***************************************************************************)
(* BackupManager.restoreBackup                                             *)
(***************************************************************************)
\* faulty variant: the id is looked up in the global history
FindByIdInHistory(flist, backupId) ==
  LET hits == {k \in 1..Len(index.history) : index.history[k].id = backupId}
  IN IF hits = {} THEN [found |-> FALSE]
     ELSE LET h == index.history[CHOOSE k \in hits : \A j \in hits : k <= j]
          IN [found |-> TRUE, entry |-> FileEntry(h.id, h.timestamp, h.operation)]

\* Array.prototype.find(b => b.id === backupId): the first match, if any
FindById(flist, backupId) ==
  LET hits == {k \in 1..Len(flist) : flist[k].id = backupId}
  IN IF hits = {} THEN [found |-> FALSE]
     ELSE [found |-> TRUE,
           entry |-> flist[CHOOSE k \in hits : \A j \in hits : k <= j]]

\* lines 141-170: the entry a request resolves to and the path to write
SelectBackup(filePath, backupId) ==
  IF filePath # Null
  THEN LET absolutePath == PathResolve(filePath)
           flist == FileList(index, absolutePath)
       IN IF Len(flist) = 0
          THEN [found |-> FALSE]
          ELSE IF backupId # NullId
               THEN LET f == FindById(flist, backupId)
                    IN IF f.found
                       THEN [found |-> TRUE, entry |-> f.entry, target |-> filePath]
                       ELSE [found |-> FALSE]
               ELSE [found |-> TRUE, entry |-> flist[1], target |-> filePath]
  ELSE IF Len(index.history) = 0
       THEN [found |-> FALSE]
       ELSE [found |-> TRUE,
             entry |-> FileEntry(index.history[1].id, index.history[1].timestamp,
                                 index.history[1].operation),
             target |-> index.history[1].filePath]

\* faulty variant: the target is not looked at
TargetNotChecked(target) == TRUE

\* fs.existsSync(filePath) of the target
TargetExists(target) == fs[PathResolve(target)] # NoFile

\* faulty variant: a target that already has the content of the blob is
\* reported as a failure
restoreBackupOnlyIfDifferent(filePath, backupId, copyOk) ==
  LET sel == SelectBackup(filePath, backupId)
      fail == [fs |-> fs, ret |-> [ok |-> FALSE]]
  IN IF ~WellFormed(index) THEN fail
     ELSE IF ~sel.found THEN fail
     ELSE IF ~HasBlob(sel.entry.id) THEN fail
     ELSE IF ~TargetExists(sel.target) THEN fail
     ELSE IF ~copyOk THEN fail
     ELSE IF fs[PathResolve(sel.target)] = blobs[sel.entry.id] THEN fail
     ELSE [fs |-> [fs EXCEPT ![PathResolve(sel.target)] = blobs[sel.entry.id]],
           ret |-> [ok |-> TRUE, filePath |-> sel.target,
                    timestamp |-> sel.entry.timestamp,
                    operation |-> sel.entry.operation]]

\* faulty variant: the blob is copied back before the target is looked at
restoreBackupCopiesFirst(filePath, backupId, copyOk) ==
  LET sel == SelectBackup(filePath, backupId)
      fail == [fs |-> fs, ret |-> [ok |-> FALSE]]
  IN IF ~WellFormed(index) THEN fail
     ELSE IF ~sel.found THEN fail
     ELSE IF ~HasBlob(sel.entry.id) THEN fail
     ELSE IF ~copyOk THEN fail
     ELSE IF ~TargetExists(sel.target)
     THEN [fs |-> [fs EXCEPT ![PathResolve(sel.target)] = blobs[sel.entry.id]],
           ret |-> [ok |-> FALSE]]
     ELSE [fs |-> [fs EXCEPT ![PathResolve(sel.target)] = blobs[sel.entry.id]],
           ret |-> [ok |-> TRUE, filePath |-> sel.target,
                    timestamp |-> sel.entry.timestamp,
                    operation |-> sel.entry.operation]]

\* restoreBackup(filePath, backupId); copyOk says whether the copy back
\* succeeds. The result holds the new file system and the value returned.
restoreBackup(filePath, backupId, copyOk) ==
  LET sel == SelectBackup(filePath, backupId)
      fail == [fs |-> fs, ret |-> [ok |-> FALSE]]
  IN IF ~WellFormed(index) THEN fail  \* TypeError, caught at line 193
     ELSE IF ~sel.found THEN fail
     ELSE IF ~HasBlob(sel.entry.id) THEN fail
     ELSE IF ~TargetExists(sel.target) THEN fail
     ELSE IF ~copyOk THEN fail
     ELSE [fs |-> [fs EXCEPT ![PathResolve(sel.target)] = blobs[sel.entry.id]],
           ret |-> [ok |-> TRUE, filePath |-> sel.target,
                    timestamp |-> sel.entry.timestamp,
                    operation |-> sel.entry.operation]]

DoRestoreBackup(filePath, backupId, copyOk) ==
  LET r == restoreBackup(filePath, backupId, copyOk)
  IN /\ fs' = r.fs
     /\ last' = [call |-> "restoreBackup", filePath |-> filePath,
                 backupId |-> backupId, ret |-> r.ret, before |-> fs,
                 copyOk |-> copyOk]
     /\ UNCHANGED <<blobs, index, diskIndex, now, created, writes, chain, peer>>

(***************************************************************************)
(* The environment: the clock and the user's own writes.                   *)
(***************************************************************************)
\* new Date(): the clock moves on by a millisecond. Only whether two readings
\* differ matters, so the clock runs at most one reading ahead of the newest
\* backup.
Tick ==
  /\ created # <<>>
  /\ created[1].timestamp = now
  /\ now' = now + 1
  /\ UNCHANGED <<fs, blobs, index, diskIndex, last, created, writes, chain, peer>>

\* a file is overwritten with other content (fs.writeFileSync)
Overwrite(abs, content) ==
  /\ writes < MaxWrites
  /\ IsFile(abs)
  /\ fs[abs] # content
  /\ fs' = [fs EXCEPT ![abs] = content]
  /\ writes' = writes + 1
  /\ last' = [call |-> "overwrite", filePath |-> abs]
  /\ UNCHANGED <<blobs, index, diskIndex, now, created, chain, peer>>

\* a file is deleted or moved away by the user
DeleteFile(abs) ==
  /\ writes < MaxWrites
  /\ IsFile(abs)
  /\ fs' = [fs EXCEPT ![abs] = NoFile]
  /\ writes' = writes + 1
  /\ last' = [call |-> "delete", filePath |-> abs]
  /\ UNCHANGED <<blobs, index, diskIndex, now, created, chain, peer>>

(***************************************************************************)
(* commands.js: the six operations, as the chain executor calls them.      *)
(***************************************************************************)
\* What one run of an operation meets: whether its input can be read, the
\* text is too long for one string (RangeError: Invalid string length),
\* the q binary is installed, what the assistant answers ("code": a fenced
\* block holding `code`; "text": none; "error": callAmazonQ's fallback text),
\* and whether fs.copySync of the backup and fs.writeFileSync succeed.
Envs ==
  [readable : BOOLEAN, tooLong : BOOLEAN, qInstalled : BOOLEAN,
   response : {"code", "text", "error"}, code : Contents,
   copyOk : BOOLEAN, writeOk : BOOLEAN]

\* How a run of an operation ends: how is "returned", "threw" (an exception
\* leaves the operation) or "exit" (process.exit(1)); achieved says that it
\* ran to its end without taking one of its error paths (callAmazonQ's
\* fallback text counts as an answer); the rest is the state it leaves.
Outcome(how, achieved, fs2, store, backedUp) ==
  [how |-> how, achieved |-> achieved, fs |-> fs2, blobs |-> store.blobs,
   index |-> store.index, diskIndex |-> store.diskIndex, backedUp |-> backedUp]

Untouched == [blobs |-> blobs, index |-> index, diskIndex |-> diskIndex]

\* readFile(filePath): the content, or process.exit(1) when reading throws
CanReadFile(abs, env) == IsFile(abs) /\ env.readable
\* getDirectoryContents(dirPath): the contents, or process.exit(1)
CanReadDir(abs, env) == fs[abs] = IsDir /\ env.readable

\* explain(filePath); refactor and test have the same shape
explain(abs, env) ==
  IF ~CanReadFile(abs, env) THEN Outcome("exit", FALSE, fs, Untouched, FALSE)
  ELSE IF env.tooLong THEN Outcome("threw", FALSE, fs, Untouched, FALSE)
  ELSE IF ~env.qInstalled THEN Outcome("exit", FALSE, fs, Untouched, FALSE)
  ELSE Outcome("returned", TRUE, fs, Untouched, FALSE)

refactor(abs, env) == explain(abs, env)

test(abs, env) == explain(abs, env)

\* document(dirPath, outputPath)
document(abs, env) ==
  IF ~CanReadDir(abs, env) THEN Outcome("exit", FALSE, fs, Untouched, FALSE)
  ELSE IF env.tooLong THEN Outcome("threw", FALSE, fs, Untouched, FALSE)
  ELSE IF ~env.qInstalled THEN Outcome("exit", FALSE, fs, Untouched, FALSE)
  ELSE Outcome("returned", TRUE, fs, Untouched, FALSE)

\* faulty variant: docstrings gives up when createBackup returns null
docstringsBlockedByBackup(abs, env) ==
  IF fs[abs] = NoFile THEN Outcome("returned", FALSE, fs, Untouched, FALSE)
  ELSE IF ~CanReadFile(abs, env) THEN Outcome("exit", FALSE, fs, Untouched, FALSE)
  ELSE LET b == createBackup(abs, "docstrings", now, env.copyOk, TRUE)
       IN IF ~b.ret.ok THEN Outcome("returned", FALSE, fs, b, FALSE)
          ELSE IF env.tooLong THEN Outcome("returned", FALSE, fs, b, b.ret.ok)
          ELSE IF ~env.qInstalled THEN Outcome("exit", FALSE, fs, b, b.ret.ok)
          ELSE IF env.response = "code" /\ env.writeOk
               THEN Outcome("returned", TRUE, [fs EXCEPT ![abs] = env.code],
                            b, b.ret.ok)
               ELSE Outcome("returned", FALSE, fs, b, b.ret.ok)

\* faulty variant: the backup is taken after the file was written, so the
\* blob holds the new content
docstringsBackupAfterWrite(abs, env) ==
  IF fs[abs] = NoFile THEN Outcome("returned", FALSE, fs, Untouched, FALSE)
  ELSE IF ~CanReadFile(abs, env) THEN Outcome("exit", FALSE, fs, Untouched, FALSE)
  ELSE IF env.tooLong THEN Outcome("returned", FALSE, fs, Untouched, FALSE)
  ELSE IF ~env.qInstalled THEN Outcome("exit", FALSE, fs, Untouched, FALSE)
  ELSE IF env.response = "code" /\ env.writeOk
       THEN LET b == createBackup(abs, "docstrings", now, env.copyOk, TRUE)
                late == IF b.ret.ok
                        THEN [b EXCEPT !.blobs = CopyToBlob(@, b.id, env.code)]
                        ELSE b
            IN Outcome("returned", TRUE, [fs EXCEPT ![abs] = env.code],
                       late, b.ret.ok)
       ELSE Outcome("returned", FALSE, fs, Untouched, FALSE)

\* docstrings(filePath): every exception is caught inside it (line 192)
docstrings(abs, env) ==
  IF fs[abs] = NoFile THEN Outcome("returned", FALSE, fs, Untouched, FALSE)
  ELSE IF ~CanReadFile(abs, env) THEN Outcome("exit", FALSE, fs, Untouched, FALSE)
  ELSE LET b == createBackup(abs, "docstrings", now, env.copyOk, TRUE)
       IN IF env.tooLong THEN Outcome("returned", FALSE, fs, b, b.ret.ok)
          ELSE IF ~env.qInstalled THEN Outcome("exit", FALSE, fs, b, b.ret.ok)
          ELSE IF env.response = "code" /\ env.writeOk
               THEN Outcome("returned", TRUE, [fs EXCEPT ![abs] = env.code],
                            b, b.ret.ok)
               ELSE Outcome("returned", FALSE, fs, b, b.ret.ok)

\* the report security saves: the fenced block when there is one, else the
\* whole answer
ReportContent(env) ==
  CASE env.response = "code" -> env.code
    [] env.response = "text" -> RawResponse
    [] OTHER -> RawError

\* security(targetPath, {output}): every exception is caught inside it
\* (line 250)
security(abs, output, env) ==
  IF fs[abs] = NoFile THEN Outcome("returned", FALSE, fs, Untouched, FALSE)
  ELSE IF ~env.readable THEN Outcome("exit", FALSE, fs, Untouched, FALSE)
  ELSE IF env.tooLong THEN Outcome("returned", FALSE, fs, Untouched, FALSE)
  ELSE IF ~env.qInstalled THEN Outcome("exit", FALSE, fs, Untouched, FALSE)
  ELSE IF output = Null
       THEN Outcome("returned", TRUE, fs, Untouched, FALSE)
       ELSE IF env.writeOk
            THEN Outcome("returned", TRUE,
                         [fs EXCEPT ![PathResolve(output)] = ReportContent(env)],
                         Untouched, FALSE)
            ELSE Outcome("returned", FALSE, fs, Untouched, FALSE)

(***************************************************************************)
(* commands.js: chain                                                      *)
(***************************************************************************)
\* line 287: the command names chain knows
Recognised ==
  {"document", "explain", "refactor", "test", "docstrings", "security"}
\* faulty variant: every command is let through on a directory
DirectoryCommandsAll ==
  {"document", "explain", "refactor", "test", "docstrings", "security"}
\* line 299: the commands allowed on a directory
DirectoryCommands == {"document", "security"}

\* the pieces steps.split(',') yields for the step strings tried
RawTokens ==
  {"document", " explain", "refactor", "test", "docstrings", "security", "badcmd"}
\* String.prototype.trim
Trim(raw) == IF raw = " explain" THEN "explain" ELSE raw
\* steps.split(',').map(step => step.trim())
ParseSteps(pieces) == [k \in 1..Len(pieces) |-> Trim(pieces[k])]

\* the switch of lines 312-336: the operation a command names
RunOperation(command, abs, output, env) ==
  CASE command = "document" -> document(abs, env)
    [] command = "explain" -> explain(abs, env)
    [] command = "refactor" -> refactor(abs, env)
    [] command = "test" -> test(abs, env)
    [] command = "docstrings" -> docstrings(abs, env)
    [] OTHER -> security(abs, output, env)

\* faulty variant: the path is not looked up before the loop
ChainStartUnchecked ==
  /\ chain.status = "idle"
  /\ \E target \in {"a.js", "proj", "gone.js"}, n \in 1..MaxSteps,
        coe \in BOOLEAN, output \in {Null, FileB} :
       \E pieces \in [1..n -> RawTokens] :
         LET absolutePath == PathResolve(target)
         IN chain' = [status |-> "running", target |-> absolutePath,
                      seq |-> ParseSteps(pieces), i |-> 1,
                      isDirectory |-> (fs[absolutePath] = IsDir),
                      continueOnError |-> coe, output |-> output, log |-> <<>>]
  /\ UNCHANGED <<fs, blobs, index, diskIndex, now, last, created, writes, peer>>

\* chain(targetPath, steps, options) up to the loop (lines 261-279)
ChainStart ==
  /\ chain.status = "idle"
  /\ \E target \in {"a.js", "proj", "gone.js"}, n \in 1..MaxSteps,
        coe \in BOOLEAN, output \in {Null, FileB} :
       \E pieces \in [1..n -> RawTokens] :
         LET absolutePath == PathResolve(target)
         IN chain' =
              IF fs[absolutePath] = NoFile
              THEN [status |-> "returned", target |-> absolutePath,
                    seq |-> <<>>, i |-> 0, isDirectory |-> FALSE,
                    continueOnError |-> coe, output |-> output, log |-> <<>>]
              ELSE [status |-> "running", target |-> absolutePath,
                    seq |-> ParseSteps(pieces), i |-> 1,
                    isDirectory |-> (fs[absolutePath] = IsDir),
                    continueOnError |-> coe, output |-> output, log |-> <<>>]
  /\ UNCHANGED <<fs, blobs, index, diskIndex, now, last, created, writes, peer>>

Running == chain.status = "running" /\ chain.i <= Len(chain.seq)
Command == chain.seq[chain.i]

\* what the loop did with one token: whether its operation was called, how
\* the step ended, whether the operation achieved its effect, and whether
\* "Command ... completed successfully" was printed for it
StepRecord(invoked, outcome, achieved, reported) ==
  [i |-> chain.i, command |-> Command, invoked |-> invoked,
   outcome |-> outcome, achieved |-> achieved, reported |-> reported]

\* faulty variant: the loop does not move on: the same token is read again
ContinueSameToken(rec) == [chain EXCEPT !.log = Append(@, rec)]
\* the loop goes on to the next token / chain returns
Continue(rec) == [chain EXCEPT !.i = @ + 1, !.log = Append(@, rec)]
Stop(rec) == [chain EXCEPT !.status = "returned", !.log = Append(@, rec)]
\* faulty variant: the flag is not consulted: every failed step is skipped
SkipOrAbortIgnoringFlag(rec) == Continue(rec)
\* the policy of lines 289-295, 301-307 and 340-343
SkipOrAbort(rec) == IF chain.continueOnError THEN Continue(rec) ELSE Stop(rec)

\* lines 287-296: the token is no command name
StepUnknown ==
  /\ Running
  /\ Command \notin Recognised
  /\ chain' = SkipOrAbort(StepRecord(FALSE, "unknown", FALSE, FALSE))
  /\ UNCHANGED <<fs, blobs, index, diskIndex, now, last, created, writes, peer>>

\* lines 299-308: the target is a directory and the command works on files
StepIncompatible ==
  /\ Running
  /\ Command \in Recognised
  /\ chain.isDirectory /\ Command \notin DirectoryCommands
  /\ chain' = SkipOrAbort(StepRecord(FALSE, "incompatible", FALSE, FALSE))
  /\ UNCHANGED <<fs, blobs, index, diskIndex, now, last, created, writes, peer>>

\* lines 313-320 and 337: document on a file. Without continue-on-error chain
\* returns; with it the switch is left by break and line 337 is printed.
StepDocumentOnFile ==
  /\ Running
  /\ Command = "document" /\ ~chain.isDirectory
  /\ chain' = IF chain.continueOnError
              THEN Continue(StepRecord(FALSE, "incompatible", FALSE, TRUE))
              ELSE Stop(StepRecord(FALSE, "incompatible", FALSE, FALSE))
  /\ UNCHANGED <<fs, blobs, index, diskIndex, now, last, created, writes, peer>>

\* faulty variant: no try/catch around the switch: an exception thrown by the
\* operation leaves chain
AfterOperationUncaught(r) ==
  CASE r.how \in {"exit", "threw"} ->
         [chain EXCEPT !.status = "exited",
                       !.log = Append(@, StepRecord(TRUE, r.how, FALSE, FALSE))]
    [] OTHER ->
         Continue(StepRecord(TRUE, "returned", r.achieved, TRUE))

\* the chain after the operation of the step ended as r (lines 337-344)
AfterOperation(r) ==
  CASE r.how = "exit" ->
         [chain EXCEPT !.status = "exited",
                       !.log = Append(@, StepRecord(TRUE, "exit", FALSE, FALSE))]
    [] r.how = "threw" ->
         SkipOrAbort(StepRecord(TRUE, "threw", FALSE, FALSE))
    [] OTHER ->
         Continue(StepRecord(TRUE, "returned", r.achieved, TRUE))

\* lines 310-344: the operation of the step is called and awaited
StepExecute ==
  /\ Running
  /\ Command \in Recognised
  /\ ~(chain.isDirectory /\ Command \notin DirectoryCommands)
  /\ ~(Command = "document" /\ ~chain.isDirectory)
  /\ \E env \in Envs :
       LET r == RunOperation(Command, chain.target, chain.output, env)
       IN /\ chain' = AfterOperation(r)
          /\ fs' = r.fs
          /\ blobs' = r.blobs
          /\ index' = r.index
          /\ diskIndex' = r.diskIndex
          /\ created' = IF r.backedUp
                        THEN <<[id |-> BackupId(chain.target, now),
                                filePath |-> chain.target, timestamp |-> now,
                                operation |-> "docstrings",
                                content |-> fs[chain.target]]>> \o created
                        ELSE created
          \* the assistant is a child process: the call takes milliseconds
          /\ now' = now + 1
  /\ UNCHANGED <<last, writes, peer>>

\* line 347: the loop is over
ChainEnd ==
  /\ chain.status = "running"
  /\ chain.i > Len(chain.seq)
  /\ chain' = [chain EXCEPT !.status = "returned"]
  /\ UNCHANGED <<fs, blobs, index, diskIndex, now, last, created, writes, peer>>

(***************************************************************************)
(* Spec: the backup store called through its API on two files.             *)
(***************************************************************************)
Init ==
  /\ fs = [p \in AbsPaths |->
             IF p = DirD THEN IsDir ELSE IF p = Gone THEN NoFile ELSE "A"]
  /\ blobs = [b \in {} |-> "A"]
  /\ index = EmptyIndex
  /\ diskIndex = EmptyIndex
  /\ now = 0
  /\ last = NoCall
  /\ created = <<>>
  /\ writes = 0
  /\ chain = ChainIdle
  /\ peer = PeerOff

CreateBackup ==
  /\ Len(created) < MaxBackups
  /\ \E p \in PathArgs, op \in Operations : DoCreateBackup(p, op, TRUE, TRUE)

\* the ids a caller can name: those of backups made so far, and one never made
KnownIds == {created[k].id : k \in 1..Len(created)} \cup {BackupId(FileA, 99)}

RestoreBackup ==
  \E p \in PathArgs \cup {Null}, id \in KnownIds \cup {NullId} :
    DoRestoreBackup(p, id, TRUE)

UserOverwrite == \E abs \in AbsFiles, c \in Contents : Overwrite(abs, c)
UserDelete == \E abs \in AbsFiles : DeleteFile(abs)

Next == CreateBackup \/ RestoreBackup \/ UserOverwrite \/ UserDelete \/ Tick

Spec == Init /\ [][Next]_vars

(***************************************************************************)
(* SpecBurst: createBackup called in quick succession on one file, so that *)
(* several calls read the same millisecond.                                *)
(***************************************************************************)
BurstCreateBackup ==
  /\ Len(created) < MaxBurst
  /\ DoCreateBackup("a.js", "docstrings", TRUE, TRUE)

BurstTick == now < MaxTicks /\ Tick

BurstOverwrite == \E c \in Contents : Overwrite(FileA, c)

BurstRestore == \E p \in {"a.js", Null} : DoRestoreBackup(p, NullId, TRUE)

NextBurst == BurstCreateBackup \/ BurstTick \/ BurstOverwrite \/ BurstRestore

SpecBurst == Init /\ [][NextBurst]_vars

(***************************************************************************)
(* SpecLong: a long run of createBackup calls, each in a millisecond of    *)
(* its own, on one file and now and then on a second one.                  *)
(***************************************************************************)
LongCreateBackup ==
  /\ Len(created) < MaxLong
  /\ created # <<>> => now > created[1].timestamp
  /\ \/ DoCreateBackup("a.js", "docstrings", TRUE, TRUE)
     \/ /\ Len(CreatedOf(FileB)) < MaxOther
        /\ Len(CreatedOf(FileA)) % OtherEvery = 0
        /\ DoCreateBackup(FileB, "x", TRUE, TRUE)

NextLong == LongCreateBackup \/ Tick

SpecLong == Init /\ [][NextLong]_vars

(***************************************************************************)
(* SpecChain: one run of chain on a file, a directory or a missing path.   *)
(***************************************************************************)
NextChain ==
  \/ ChainStart
  \/ StepUnknown
  \/ StepIncompatible
  \/ StepDocumentOnFile
  \/ StepExecute
  \/ ChainEnd

SpecChain == Init /\ [][NextChain]_vars

(***************************************************************************)
(* BackupManager.loadIndex and the constructor: a new process.             *)
(***************************************************************************)
\* the index file after a write that was cut short: not parseable
TornIndex == [torn |-> TRUE]
\* there is no index file
AbsentIndex == [absent |-> TRUE]
\* the index file parses to an object without files and history: {}
MalformedIndex == [shape |-> "object"]

\* loadIndex(): the parsed file; an empty index when JSON.parse throws
LoadIndex(disk) ==
  IF disk \in {TornIndex, AbsentIndex} THEN EmptyIndex ELSE disk

\* the index file after loadIndex(): an absent file is created (line 34)
LoadedDisk(disk) == IF disk = AbsentIndex THEN EmptyIndex ELSE disk

\* the process ends and the tool is started again: the constructor loads the
\* index file; blobs and files stay as they are
Restart ==
  /\ index' = LoadIndex(diskIndex)
  /\ last' = [call |-> "restart"]
  /\ UNCHANGED <<fs, blobs, diskIndex, now, created, writes, chain, peer>>

(***************************************************************************)
(* BackupManager.listBackups                                               *)
(***************************************************************************)
\* listBackups(filePath): the value returned. this.index.files[absolutePath]
\* of an index without files throws a TypeError, caught at line 212;
\* this.index.history of an index without history is undefined.
listBackups(filePath) ==
  IF filePath # Null
  THEN IF WellFormed(index)
       THEN [defined |-> TRUE, list |-> FileList(index, PathResolve(filePath))]
       ELSE [defined |-> TRUE, list |-> <<>>]
  ELSE IF WellFormed(index)
       THEN [defined |-> TRUE, list |-> index.history]
       ELSE [defined |-> FALSE]

DoListBackups(filePath) ==
  /\ last' = [call |-> "listBackups", filePath |-> filePath,
              ret |-> listBackups(filePath)]
  /\ UNCHANGED <<fs, blobs, index, diskIndex, now, created, writes, chain, peer>>

\* a process starts on an index file in state disk
Start(disk) ==
  /\ index' = LoadIndex(disk)
  /\ diskIndex' = LoadedDisk(disk)
  /\ last' = [call |-> "start", disk |-> disk]
  /\ UNCHANGED <<fs, blobs, now, created, writes, chain, peer>>

(***************************************************************************)
(* SpecLoad: processes that start on an index file in any state: the one   *)
(* the tool left, none, one cut short, or one of another shape.            *)
(***************************************************************************)
LoadStart == \E disk \in {diskIndex, AbsentIndex, TornIndex, MalformedIndex} :
               Start(disk)

LoadCreateBackup ==
  /\ Len(created) < MaxLoadBackups
  /\ \E p \in PathArgs, copyOk \in BOOLEAN :
       DoCreateBackup(p, "docstrings", copyOk, TRUE)

LoadRestore == \E p \in PathArgs \cup {Null} : DoRestoreBackup(p, NullId, TRUE)

LoadListBackups == \E p \in PathArgs \cup {Null} : DoListBackups(p)

NextLoad ==
  LoadStart \/ LoadCreateBackup \/ LoadRestore \/ LoadListBackups \/ Tick

SpecLoad == Init /\ [][NextLoad]_vars

(***************************************************************************)
(* SpecIO: the backup store when copies and writes of the index file may   *)
(* fail, over runs of the tool.                                            *)
(***************************************************************************)
IOCreateBackup ==
  /\ Len(created) < MaxIOBackups
  /\ \E p \in PathArgs, copyOk \in BOOLEAN, saveOk \in BOOLEAN :
       DoCreateBackup(p, "docstrings", copyOk, saveOk)

IORestore ==
  \E p \in PathArgs \cup {Null}, id \in KnownIds \cup {NullId},
     copyOk \in BOOLEAN :
    DoRestoreBackup(p, id, copyOk)

IORestart == Restart

NextIO == IOCreateBackup \/ IORestore \/ IORestart \/ UserOverwrite \/ Tick

SpecIO == Init /\ [][NextIO]_vars

(***************************************************************************)
(* SpecCrash: the process dies inside a createBackup call and the tool is  *)
(* started again. Every I/O step succeeds; calls fall in milliseconds of   *)
(* their own.                                                              *)
(***************************************************************************)
\* where in createBackup the process dies: after fs.copySync (line 76), after
\* the lists were updated in memory (lines 79-101), after the blobs of the
\* evicted entries were removed (lines 104-119), or inside fs.writeFileSync
\* of the index file (line 51), which leaves a file cut short
CrashPoints == {"afterCopy", "afterUpdate", "afterRemove", "duringWrite"}

\* createBackup(filePath, operation) runs up to `point`, the process dies and
\* a new process loads the index file
CrashInCreateBackup(filePath, operation, point) ==
  LET absolutePath == PathResolve(filePath)
      whole == createBackup(filePath, operation, now, TRUE, TRUE)
      copied == CopyToBlob(blobs, BackupId(absolutePath, now), fs[absolutePath])
      disk == IF point = "duringWrite" THEN TornIndex ELSE diskIndex
  IN /\ IsFile(absolutePath)
     /\ blobs' = IF point \in {"afterCopy", "afterUpdate"} THEN copied
                 ELSE whole.blobs
     /\ diskIndex' = disk
     /\ index' = LoadIndex(disk)
     /\ last' = [call |-> "crash", filePath |-> filePath, point |-> point,
                 before |-> [index |-> index, diskIndex |-> diskIndex,
                             blobs |-> blobs]]
     /\ UNCHANGED <<fs, now, created, writes, chain, peer>>

CrashCreateBackup ==
  /\ Len(created) < MaxCrashBackups
  /\ created # <<>> => now > created[1].timestamp
  /\ DoCreateBackup("a.js", "docstrings", TRUE, TRUE)

Crash ==
  /\ last.call # "crash"
  /\ \E point \in CrashPoints : CrashInCreateBackup("a.js", "docstrings", point)

NextCrash == CrashCreateBackup \/ Crash \/ Tick

SpecCrash == Init /\ [][NextCrash]_vars

(***************************************************************************)
(* What the claims speak of.                                               *)
(***************************************************************************)
\* the last call was restoreBackup(file) or restoreBackup(file, id) on a file
\* that existed when it was called
RestoredFile ==
  /\ last.call = "restoreBackup"
  /\ last.filePath # Null
  /\ last.before[PathResolve(last.filePath)] \notin {NoFile, IsDir}

\* C1: after a successful createBackup of a file holding A and an overwrite
\* of the file to some other content B, restoreBackup(file) with no id
\* succeeds and the file holds A again (A is the content captured by the
\* file's newest backup).
C1_RestoreRoundTrip ==
  (RestoredFile /\ last.backupId = NullId
     /\ CreatedOf(PathResolve(last.filePath)) # <<>>
     /\ last.before[PathResolve(last.filePath)]
          # CreatedOf(PathResolve(last.filePath))[1].content)
  => /\ last.ret.ok
     /\ fs[PathResolve(last.filePath)]
          = CreatedOf(PathResolve(last.filePath))[1].content

\* C4: when B1 and later B2 were created for the same file with different
\* content, restoreBackup(file, B1.id) writes the content captured when B1 was
\* created and returns B1's timestamp and operation. (created is newest
\* first, so B1 is created[k1] and B2 is created[k2] with k2 < k1.)
C4_ExplicitId ==
  \A k1, k2 \in 1..Len(created) :
    (/\ k2 < k1
     /\ created[k1].filePath = created[k2].filePath
     /\ created[k1].content # created[k2].content
     /\ RestoredFile
     /\ PathResolve(last.filePath) = created[k1].filePath
     /\ last.backupId = created[k1].id)
    => /\ last.ret.ok
       /\ fs[created[k1].filePath] = created[k1].content
       /\ last.ret.timestamp = created[k1].timestamp
       /\ last.ret.operation = created[k1].operation

\* the path a restore request is about: the one given, else the one of the
\* newest entry of the history
RequestTarget(filePath) ==
  IF filePath # Null THEN {PathResolve(filePath)}
  ELSE IF index.history # <<>> THEN {index.history[1].filePath} ELSE {}

\* C5: a restoreBackup whose target file does not exist returns failure and
\* changes no file, no blob and neither index.
C5_MissingTarget ==
  [][(last'.call = "restoreBackup" /\ last' # last
        /\ \E t \in RequestTarget(last'.filePath) : fs[t] = NoFile)
     => (~last'.ret.ok /\ UNCHANGED <<fs, blobs, index, diskIndex>>)]_vars

\* a restore of a deleted file whose newest backup and blob are there
C5_Witness ==
  /\ last.call = "restoreBackup"
  /\ last.filePath # Null
  /\ fs[PathResolve(last.filePath)] = NoFile
  /\ FileList(index, PathResolve(last.filePath)) # <<>>
  /\ HasBlob(FileList(index, PathResolve(last.filePath))[1].id)
  /\ ~last.ret.ok

\* the index entries of the successful backups, newest first
AsFileEntries(log) ==
  [k \in 1..Len(log) |-> FileEntry(log[k].id, log[k].timestamp, log[k].operation)]
AsHistoryEntries(log) ==
  [k \in 1..Len(log) |->
     HistoryEntry(log[k].id, log[k].filePath, log[k].timestamp, log[k].operation)]

C3_GlobalCap ==
  /\ index.history = AsHistoryEntries(SliceTo(created, MaxHistory))
  /\ Len(created) >= MaxHistory => Len(index.history) = MaxHistory
  /\ \A f \in AbsFiles :
       FileList(index, f) = AsFileEntries(SliceTo(CreatedOf(f), MaxFileBackups))

\* more than 100 backups over two files, one of them past its per-file cap,
\* the other with an entry that left the history and stayed in its list
C3_Witness ==
  /\ Len(created) > MaxHistory
  /\ Len(CreatedOf(FileA)) > MaxFileBackups
  /\ CreatedOf(FileB) # <<>>
  /\ \A k \in 1..Len(index.history) : index.history[k].filePath # FileB
  /\ FileList(index, FileB) # <<>>

\* the records of the chain's log for step i (at most one)
StepsAt(i) == {k \in 1..Len(chain.log) : chain.log[k].i = i}
\* an operation was called at step i
InvokedAt(i) == \E k \in StepsAt(i) : chain.log[k].invoked
\* the token after step i, when there is one, is the next one the loop
\* examines: it has been processed or the loop stands at it
NextTokenProcessed(i) ==
  i < Len(chain.seq)
  => (StepsAt(i + 1) # {} \/ (chain.status = "running" /\ chain.i = i + 1))

\* C6: when token i of the sequence is no command name, no operation is
\* called for it; without continue-on-error no operation of a later step is
\* called either and no later token is examined; with continue-on-error the
\* loop goes on with token i+1.
C6_UnknownCommand ==
  \A i \in 1..Len(chain.seq) :
    (chain.seq[i] \notin Recognised /\ StepsAt(i) # {})
    => /\ ~InvokedAt(i)
       /\ ~chain.continueOnError
            => /\ \A j \in i + 1 .. Len(chain.seq) : StepsAt(j) = {}
               /\ chain.status = "returned"
       /\ chain.continueOnError => NextTokenProcessed(i)

\* badcmd skipped under continue-on-error and the operation of the next
\* step called
C6_Witness ==
  /\ chain.continueOnError
  /\ Len(chain.seq) >= 2
  /\ chain.seq[1] \notin Recognised
  /\ InvokedAt(2)

\* C7: when the operation called at step i fails, then without
\* continue-on-error no operation of a later step is called, and with
\* continue-on-error the loop goes on with the next token.
C7_FailurePolicy ==
  \A k \in 1..Len(chain.log) :
    (chain.log[k].invoked /\ ~chain.log[k].achieved)
    => IF chain.continueOnError
       THEN NextTokenProcessed(chain.log[k].i)
       ELSE \A j \in k + 1 .. Len(chain.log) : ~chain.log[j].invoked

\* C8: on a file target a document step calls no operation, is rejected in
\* both policy modes (skipped with continue-on-error, the chain stopped
\* without) and is never reported as completed successfully.
C8_DocumentOnFile ==
  \A k \in 1..Len(chain.log) :
    (chain.log[k].command = "document" /\ ~chain.isDirectory)
    => /\ ~chain.log[k].invoked
       /\ ~chain.log[k].reported
       /\ IF chain.continueOnError
          THEN NextTokenProcessed(chain.log[k].i)
          ELSE k = Len(chain.log) /\ chain.status = "returned"

\* the commands chain lets run on the target type
Compatible(command, isDirectory) ==
  IF isDirectory THEN command \in DirectoryCommands
  ELSE command \in Recognised \ {"document"}

\* C9: with continue-on-error, when the run of chain is over every token was
\* processed once and in order, and the operation of every recognised,
\* compatible token was called.
C9_EveryTokenProcessed ==
  (chain.continueOnError /\ chain.status \in {"returned", "exited"}
     /\ chain.seq # <<>>)
  => /\ Len(chain.log) = Len(chain.seq)
     /\ \A k \in 1..Len(chain.log) :
          /\ chain.log[k].i = k
          /\ Compatible(chain.seq[k], chain.isDirectory) => chain.log[k].invoked

C11_NullOnIOFailure ==
  (last.call = "createBackup" /\ (~last.copyOk \/ ~last.saveOk)) => ~last.ok

\* C12: when createBackup has returned, the index file holds the in-memory
\* index.
C12_SynchronousPersistence ==
  last.call = "createBackup" => diskIndex = index

\* C13: after a crash inside createBackup and a restart, the reloaded
\* per-file lists hold every backup completed before that was not evicted
\* (the newest 10 of each file), and every entry of a reloaded per-file list
\* has its blob in the backup directory.
C13_CrashSafety ==
  last.call = "crash"
  => \A f \in AbsFiles :
       /\ FileList(index, f) = AsFileEntries(SliceTo(CreatedOf(f), MaxFileBackups))
       /\ \A k \in 1..Len(FileList(index, f)) : HasBlob(FileList(index, f)[k].id)

\* the ids of the entries of the per-file lists
ListedIds ==
  UNION {{index.files[f][k].id : k \in 1..Len(index.files[f])} :
           f \in DOMAIN index.files}

\* C14: a blob is in the backup directory exactly when an entry of some
\* per-file list carries its id.
C14_BlobOwnership == DOMAIN blobs = ListedIds

\* an entry of a per-file list has its counterpart in the history / an entry
\* of the history has its counterpart in the list of its file
InHistory(f, e) ==
  LET h == HistoryEntry(e.id, f, e.timestamp, e.operation)
  IN \E j \in 1..Len(index.history) : index.history[j] = h
InFileList(h) ==
  LET e == FileEntry(h.id, h.timestamp, h.operation)
      flist == FileList(index, h.filePath)
  IN \E k \in 1..Len(flist) : flist[k] = e

\* the entries createBackup has put on the history / on the list of file f
InsertedHistoryEntries ==
  {HistoryEntry(created[c].id, created[c].filePath, created[c].timestamp,
                created[c].operation) : c \in 1..Len(created)}
InsertedFileEntries(f) ==
  {FileEntry(created[c].id, created[c].timestamp, created[c].operation) :
     c \in {d \in 1..Len(created) : created[d].filePath = f}}

\* C15: an entry of a per-file list is in the history unless the history is
\* full (100 entries) and the entry is older than its oldest entry; an entry
\* of the history is in the list of its file unless that list is full (10
\* entries) and the entry is older than its oldest entry; and every entry of
\* either list is one that a createBackup call inserted (into both).
C15_DualListConsistency ==
  LET inserted == InsertedHistoryEntries
  IN /\ \A f \in DOMAIN index.files :
          LET flist == index.files[f]
              insertedF == InsertedFileEntries(f)
          IN \A k \in 1..Len(flist) :
               /\ \/ InHistory(f, flist[k])
                  \/ /\ Len(index.history) = MaxHistory
                     /\ flist[k].timestamp < index.history[MaxHistory].timestamp
               /\ flist[k] \in insertedF
     /\ \A j \in 1..Len(index.history) :
          LET h == index.history[j]
              flist == FileList(index, h.filePath)
          IN /\ \/ InFileList(h)
                \/ /\ Len(flist) = MaxFileBackups
                   /\ h.timestamp < flist[MaxFileBackups].timestamp
             /\ h \in inserted

\* a full history that dropped a backup still in its file's list, and a full
\* per-file list that dropped a backup still in the history
C15_Witness ==
  /\ Len(index.history) = MaxHistory
  /\ \E f \in DOMAIN index.files :
       \E k \in 1..Len(index.files[f]) : ~InHistory(f, index.files[f][k])
  /\ \E j \in 1..Len(index.history) : ~InFileList(index.history[j])

\* C16: restoreBackup() with no file and no id fails and writes nothing when
\* the history is empty; otherwise, the file of history[0] being there, it
\* writes the content captured by the most recently created backup to that
\* file and returns the path, timestamp and operation of history[0].
C16_RestoreWithoutFile ==
  (last.call = "restoreBackup" /\ last.filePath = Null /\ last.backupId = NullId)
  => IF index.history = <<>>
     THEN ~last.ret.ok /\ fs = last.before
     ELSE last.before[index.history[1].filePath] \notin {NoFile, IsDir}
          => /\ last.ret.ok
             /\ index.history[1].id = created[1].id
             /\ fs[index.history[1].filePath] = created[1].content
             /\ last.ret.filePath = index.history[1].filePath
             /\ last.ret.timestamp = index.history[1].timestamp
             /\ last.ret.operation = index.history[1].operation

\* the id of the backup a successful restore reports: ids are made of the
\* path and the timestamp, both of which restoreBackup returns
RestoredId == BackupId(PathResolve(last.ret.filePath), last.ret.timestamp)

\* C17: a restoreBackup call that was given a backup id and succeeded restored
\* the backup with that id, whether or not a file was given.
C17_RestoresSuppliedId ==
  (last.call = "restoreBackup" /\ last.backupId # NullId /\ last.ret.ok)
  => RestoredId = last.backupId

\* C18: restoreBackup(file) fails when the file has no per-file list or an
\* empty one, and restoreBackup(file, id) fails when no entry of that file's
\* list has the id, wherever else the id occurs; no file is written.
C18_LookupFailures ==
  (/\ last.call = "restoreBackup"
   /\ last.filePath # Null
   /\ \/ FileList(index, PathResolve(last.filePath)) = <<>>
      \/ /\ last.backupId # NullId
         /\ \A k \in 1..Len(FileList(index, PathResolve(last.filePath))) :
              FileList(index, PathResolve(last.filePath))[k].id # last.backupId)
  => (~last.ret.ok /\ fs = last.before)

\* a restore of an existing file that has backups of its own, by the id of a
\* backup of another file that is in the history, and whose blob is there
C18_Witness ==
  /\ last.call = "restoreBackup"
  /\ last.filePath # Null
  /\ IsFile(PathResolve(last.filePath))
  /\ FileList(index, PathResolve(last.filePath)) # <<>>
  /\ \E j \in 1..Len(index.history) :
       /\ index.history[j].id = last.backupId
       /\ index.history[j].filePath # PathResolve(last.filePath)
  /\ HasBlob(last.backupId)
  /\ ~last.ret.ok

\* C19: a chain step in which docstrings took a backup and then changed the
\* file leaves, as the blob of the newest entry of the file's list, the
\* content the file had before the step, and a restoreBackup(file) made right
\* after it succeeds and puts that content back.
C19_BackupPrecedesOverwrite ==
  [][(/\ Len(chain'.log) > Len(chain.log)
      /\ Len(created') > Len(created)
      /\ fs'[chain.target] # fs[chain.target])
     => /\ FileList(index', chain.target) # <<>>
        /\ FileList(index', chain.target)[1].id \in DOMAIN blobs'
        /\ blobs'[FileList(index', chain.target)[1].id] = fs[chain.target]
        /\ (restoreBackup(chain.target, NullId, TRUE).ret.ok)'
        /\ (restoreBackup(chain.target, NullId, TRUE).fs[chain.target])'
             = fs[chain.target]]_vars

\* docstrings ran in a chain, its backup succeeded and the file now differs
\* from what the backup captured
C19_Witness ==
  /\ \E k \in 1..Len(chain.log) :
       chain.log[k].command = "docstrings" /\ chain.log[k].achieved
  /\ created # <<>>
  /\ created[1].filePath = chain.target
  /\ HasBlob(created[1].id)
  /\ fs[chain.target] # created[1].content

\* C20: a chain step that changes the content of an existing file has called
\* createBackup on that file before: either the step added a backup of the
\* file, or it is docstrings on its target, whose createBackup call (line
\* 166) returned null.
C20_WritesBackedUp ==
  [][\A p \in AbsPaths :
       (/\ Len(chain'.log) > Len(chain.log)
        /\ fs[p] \notin {NoFile, IsDir}
        /\ fs'[p] # fs[p])
       => \/ Len(created') > Len(created) /\ created'[1].filePath = p
          \/ chain.seq[chain.i] = "docstrings" /\ p = chain.target]_vars

\* the runs of docstrings in which fs.copySync of the backup fails
BackupFails == {env \in Envs : ~env.copyOk}

\* C21: when createBackup returns null inside docstrings on a file, no
\* exception leaves docstrings and no backup is recorded, the assistant is
\* still called (a missing q binary still ends the process there), and when
\* the answer holds a code block and the write succeeds the file holds that
\* code afterwards.
C21_BestEffortBackup ==
  (chain.status = "running" /\ IsFile(chain.target))
  => \A env \in BackupFails :
       LET r == docstrings(chain.target, env)
       IN /\ r.how # "threw"
          /\ ~r.backedUp
          /\ r.index = index /\ r.blobs = blobs
          /\ (env.readable /\ ~env.tooLong /\ ~env.qInstalled) => r.how = "exit"
          /\ (env.readable /\ ~env.tooLong /\ env.qInstalled
                /\ env.response = "code" /\ env.writeOk)
             => /\ r.how = "returned"
                /\ r.achieved
                /\ r.fs = [fs EXCEPT ![chain.target] = env.code]

\* docstrings ran in a chain and wrote the file although no backup was made
C21_Witness ==
  /\ Len(chain.log) = 1
  /\ chain.log[1].command = "docstrings"
  /\ chain.log[1].achieved
  /\ created = <<>>
  /\ fs[chain.target] = "B"

\* C22: listBackups returns a sequence: with a path the per-file list of the
\* file (empty when it has none), without a path the global history; and a
\* step that is no createBackup call and no new process leaves what
\* listBackups returns, for every argument, as it was.
C22_ListBackupsPure ==
  /\ [](last.call = "listBackups"
          => /\ last.ret.defined
             /\ WellFormed(index)
                  => last.ret.list
                       = IF last.filePath # Null
                         THEN FileList(index, PathResolve(last.filePath))
                         ELSE index.history)
  /\ [][last'.call \notin {"createBackup", "start"}
        => \A p \in PathArgs \cup {Null} : listBackups(p)' = listBackups(p)]_vars

\* C27: after a start the in-memory index has a files mapping and a history
\* list, and is empty when the index file was absent or did not parse; a
\* createBackup of an existing file whose blob copy succeeds returns an id.
C27_IndexLoadTotal ==
  /\ last.call = "start"
       => /\ WellFormed(index)
          /\ last.disk \in {AbsentIndex, TornIndex} => index = EmptyIndex
  /\ (last.call = "createBackup" /\ last.copyOk
        /\ IsFile(PathResolve(last.filePath)))
     => last.ok

\* C23: after a createBackup(file, op) that returned id, the per-file list
\* of the resolved path is the first 10 of (new entry, then the list before
\* the call) and the history is the first 100 of (new entry, then the history
\* before the call); the new entry heads both with the id returned, one
\* timestamp and op.
C23_ListUpdate ==
  (last.call = "createBackup" /\ last.ok)
  => LET abs == PathResolve(last.filePath)
         flist == FileList(index, abs)
         head == flist[1]
     IN /\ flist # <<>> /\ index.history # <<>>
        /\ head.id = last.id /\ head.operation = last.operation
        /\ index.history[1]
             = HistoryEntry(head.id, abs, head.timestamp, head.operation)
        /\ flist = SliceTo(<<head>> \o FileList(last.before.index, abs),
                           MaxFileBackups)
        /\ index.history = SliceTo(<<index.history[1]>> \o last.before.index.history,
                                   MaxHistory)

\* a call that found the per-file list and the history both full
C23_Witness ==
  /\ last.call = "createBackup" /\ last.ok
  /\ Len(FileList(last.before.index, PathResolve(last.filePath))) = MaxFileBackups
  /\ Len(last.before.index.history) = MaxHistory

\* C24: for every step of a chain whose token is a recognised command, the
\* operation is called exactly when the target is a directory and the command
\* is document or security, or the target is a file and the command is
\* explain, refactor, test, docstrings or security.
C24_CompatibilityMatrix ==
  \A k \in 1..Len(chain.log) :
    chain.log[k].command
      \in {"document", "explain", "refactor", "test", "docstrings", "security"}
    => (chain.log[k].invoked
        <=> IF chain.isDirectory
            THEN chain.log[k].command \in {"document", "security"}
            ELSE chain.log[k].command
                   \in {"explain", "refactor", "test", "docstrings", "security"})

\* on a directory, a file command was turned away and the next step's
\* operation was called
C24_Witness ==
  /\ chain.isDirectory
  /\ Len(chain.log) = 2
  /\ chain.log[1].command \in {"explain", "refactor", "test", "docstrings"}
  /\ ~chain.log[1].invoked
  /\ chain.log[2].invoked

\* C25: the ids inside a per-file list are pairwise distinct and entries of
\* different files have different ids.
C25_UniqueIds ==
  \A f \in DOMAIN index.files, g \in DOMAIN index.files :
    \A k \in 1..Len(index.files[f]), j \in 1..Len(index.files[g]) :
      (f # g \/ k # j) => index.files[f][k].id # index.files[g][j].id

(***************************************************************************)
(* SpecAwait: one run of chain with the call of an operation and the       *)
(* resumption of the loop after its await as two steps. Every operation    *)
(* is an async function whose body is synchronous file and child-process   *)
(* calls (execSync, readFileSync, copySync, writeFileSync), so between the *)
(* call and the resumption nothing but that operation runs.                *)
(***************************************************************************)
\* what has been started and finished so far, oldest first
Events == IF last.call = "await" THEN last.events ELSE <<>>
\* the files, blobs and persisted index as they are now
Disk == [fs |-> fs, blobs |-> blobs, diskIndex |-> diskIndex]

\* faulty variant: the operation is called without await: the loop goes on
\* to the next token while the promise is pending
AwaitOmitted(c) == [c EXCEPT !.i = @ + 1]
\* `await op(...)` of lines 322-335: the loop is suspended until the promise
\* of the operation settles
Await(c) == [c EXCEPT !.status = "awaiting"]

\* lines 310-335: the switch calls the operation of the step
AwaitCall ==
  /\ Running
  /\ Command \in Recognised
  /\ ~(chain.isDirectory /\ Command \notin DirectoryCommands)
  /\ ~(Command = "document" /\ ~chain.isDirectory)
  /\ chain' = Await(chain)
  /\ last' = [call |-> "await",
              events |-> Append(Events, [kind |-> "start", i |-> chain.i,
                                         disk |-> Disk])]
  /\ UNCHANGED <<fs, blobs, index, diskIndex, now, created, writes, peer>>

\* lines 337-344: the operation has run to its end, its promise settles and
\* the loop resumes after the await
AwaitResume ==
  /\ chain.status = "awaiting"
  /\ \E env \in Envs :
       LET r == RunOperation(Command, chain.target, chain.output, env)
       IN /\ chain' = [AfterOperation(r) EXCEPT
                         !.status = IF @ = "awaiting" THEN "running" ELSE @]
          /\ fs' = r.fs
          /\ blobs' = r.blobs
          /\ index' = r.index
          /\ diskIndex' = r.diskIndex
          /\ created' = IF r.backedUp
                        THEN <<[id |-> BackupId(chain.target, now),
                                filePath |-> chain.target, timestamp |-> now,
                                operation |-> "docstrings",
                                content |-> fs[chain.target]]>> \o created
                        ELSE created
          /\ now' = now + 1
          /\ last' = [call |-> "await",
                      events |-> Append(Events,
                                   [kind |-> "finish", i |-> chain.i,
                                    disk |-> [fs |-> r.fs, blobs |-> r.blobs,
                                              diskIndex |-> r.diskIndex]])]
  /\ UNCHANGED <<writes, peer>>

NextAwait ==
  \/ ChainStart
  \/ StepUnknown
  \/ StepIncompatible
  \/ StepDocumentOnFile
  \/ AwaitCall
  \/ AwaitResume
  \/ ChainEnd

SpecAwait == Init /\ [][NextAwait]_vars

\* C26: the steps of a chain never overlap: operations are started and
\* finished in turn (start, finish, start, finish, ...), each finish belongs
\* to the start before it, the started steps come in rising sequence order,
\* and when a step is started the files, the blobs and the persisted index
\* are exactly as the step finished before it left them.
C26_StepsNeverOverlap ==
  \A k \in 1..Len(Events) :
    /\ Events[k].kind = IF k % 2 = 1 THEN "start" ELSE "finish"
    /\ k % 2 = 0 => Events[k].i = Events[k - 1].i
    /\ (k % 2 = 1 /\ k > 1)
         => /\ Events[k].i > Events[k - 2].i
            /\ Events[k].disk = Events[k - 1].disk

\* two operations were run, the first of which changed a file or the store
C26_Witness ==
  /\ Len(Events) = 4
  /\ Events[1].i = 1 /\ Events[3].i = 2
  /\ Events[2].disk # Events[1].disk
  /\ chain.status = "returned"

(***************************************************************************)
(* SpecRace: two processes of the tool on one backup directory. The first  *)
(* is the process of the variable index, started at Init; the second is    *)
(* peer. Each makes one createBackup call.                                 *)
(***************************************************************************)
\* faulty variant: the index file is read again before the update
ThisIndexReloaded(own) == LoadIndex(diskIndex)
\* this.index as createBackup uses it (lines 79-96): the object the
\* constructor loaded at line 19; nothing reads the file again or locks it
ThisIndex(own) == own

\* the first process has made its call
FirstDone == last.call = "createBackup"

\* the second process starts: the constructor loads the index file
PeerStart ==
  /\ peer.pc = "off"
  /\ peer' = [pc |-> "loaded", index |-> LoadIndex(diskIndex),
              fresh |-> FirstDone]
  /\ diskIndex' = LoadedDisk(diskIndex)
  /\ UNCHANGED <<fs, blobs, index, now, last, created, writes, chain>>

\* createBackup in the second process
PeerCreateBackup ==
  /\ peer.pc = "loaded"
  /\ \E p \in PathArgs, op \in Operations :
       LET r == createBackupOn(ThisIndex(peer.index), p, op, now, TRUE, TRUE)
           abs == PathResolve(p)
       IN /\ peer' = [pc |-> "done", index |-> r.index, fresh |-> peer.fresh,
                      id |-> r.id, first |-> ~FirstDone]
          /\ blobs' = r.blobs
          /\ diskIndex' = r.diskIndex
          /\ created' = <<[id |-> r.id, filePath |-> abs, timestamp |-> now,
                           operation |-> op, content |-> fs[abs]]>> \o created
  /\ UNCHANGED <<fs, index, now, last, writes, chain>>

\* createBackup in the first process
RaceCreateBackup ==
  /\ ~FirstDone
  /\ \E p \in PathArgs, op \in Operations : DoCreateBackup(p, op, TRUE, TRUE)

NextRace == RaceCreateBackup \/ PeerStart \/ PeerCreateBackup \/ Tick

SpecRace == Init /\ [][NextRace]_vars

\* the ids an index lists, in its history or in a per-file list
IdsIn(idx) ==
  {idx.history[k].id : k \in 1..Len(idx.history)}
    \cup UNION {{idx.files[f][k].id : k \in 1..Len(idx.files[f])} :
                f \in DOMAIN idx.files}

\* both processes have completed their createBackup
BothDone == FirstDone /\ peer.pc = "done"
\* the process that saved last had loaded the index before the other saved
LoadedBeforeOtherSaved == peer.first \/ ~peer.fresh
\* the backup of the process that saved first
SavedFirst == IF peer.first THEN peer.id ELSE last.id

\* C28: lost update between two processes: when both have completed one
\* createBackup of different ids and the one that saved last had loaded the
\* index before the other saved, the persisted index does not list the
\* backup that was saved first, and its blob is on disk.
C28_LostUpdate ==
  (BothDone /\ LoadedBeforeOtherSaved /\ last.id # peer.id)
    => /\ SavedFirst \notin IdsIn(diskIndex)
       /\ SavedFirst \in DOMAIN blobs

\* both processes loaded the empty index, the first saved, then the second:
\* the first backup has its blob and no entry
C28_Witness ==
  /\ BothDone /\ ~peer.first /\ ~peer.fresh
  /\ last.ok /\ last.id # peer.id
  /\ last.id \in DOMAIN blobs
  /\ last.id \notin IdsIn(diskIndex)
  /\ peer.id \in IdsIn(diskIndex)

(***************************************************************************)
(* SpecChainLive: one run of chain in which every operation called comes   *)
(* back (it returns or throws; the process is not ended inside it). The    *)
(* loop is synchronous code of one async function: once chain is called,   *)
(* a step that can be taken is taken, hence the weak fairness on the steps.*)
(***************************************************************************)
\* the operation of the step is called and comes back
ReturningStepExecute == StepExecute /\ chain'.status # "exited"

\* the steps of the loop of lines 282-347
LoopSteps ==
  \/ StepUnknown
  \/ StepIncompatible
  \/ StepDocumentOnFile
  \/ ReturningStepExecute
  \/ ChainEnd

\* chain is called with a step string over one command of each kind: no command,
\* one for directories, one that reads the file, one that rewrites it
LiveCommands == {"badcmd", "document", "explain", "docstrings"}
LiveChainStart ==
  /\ ChainStart
  /\ \A k \in DOMAIN chain'.seq : chain'.seq[k] \in LiveCommands

NextChainLive == LiveChainStart \/ LoopSteps

SpecChainLive == Init /\ [][NextChainLive]_vars /\ WF_vars(LoopSteps)

\* C29: chain terminates: a chain that is running eventually returns to its
\* caller; every token is processed at most once (each record added to the
\* log is for the token after the one of the record before it, and is added
\* while chain runs); once chain has returned, nothing more is examined.
C29_ChainTerminates ==
  /\ (chain.status = "running") ~> (chain.status = "returned")
  /\ [][chain'.log # chain.log
          => /\ chain.status = "running"
             /\ Len(chain'.log) = Len(chain.log) + 1
             /\ chain'.log[Len(chain'.log)].i = chain.i
             /\ \A k \in 1..Len(chain.log) : chain.log[k].i < chain.i]_vars
  /\ [][chain.status = "returned" => chain' = chain]_vars

\* a chain of two tokens returned after the first step failed and aborted it,
\* the second token never examined
C29_Witness ==
  /\ chain.status = "returned"
  /\ Len(chain.seq) = 2
  /\ Len(chain.log) = 1
  /\ chain.log[1].invoked /\ chain.log[1].outcome = "threw"

\* C30: "Command ... completed successfully" is printed for a step only if
\* the operation of the step was called and achieved its effect without
\* taking an error path.
C30_ReportedOnlyIfAchieved ==
  \A k \in 1..Len(chain.log) :
    chain.log[k].reported => (chain.log[k].invoked /\ chain.log[k].achieved)

\* the user's file after restoreBackup(filePath, backupId) called now
FileAfterRestore(filePath, backupId) ==
  restoreBackup(filePath, backupId, TRUE).fs[PathResolve(filePath)]

\* C31: every listed entry is restorable: for every entry of the global
\* history and of every per-file list whose file exists,
\* restoreBackup(entry.filePath, entry.id) succeeds and the file then holds
\* the content captured when the entry was made.
C31_ListedEntriesRestorable ==
  /\ \A k \in 1..Len(index.history) :
       LET h == index.history[k]
       IN IsFile(h.filePath)
            => /\ restoreBackup(h.filePath, h.id, TRUE).ret.ok
               /\ FileAfterRestore(h.filePath, h.id) = created[k].content
  /\ \A f \in DOMAIN index.files :
       \A k \in 1..Len(index.files[f]) :
         IsFile(f)
           => /\ restoreBackup(f, index.files[f][k].id, TRUE).ret.ok
              /\ FileAfterRestore(f, index.files[f][k].id)
                   = CreatedOf(f)[k].content

\* C32: head consistency: when the global history is not empty, its first
\* entry has the id of the first entry of the per-file list of its file, and
\* the blob of that id is in the backup directory, so that restoreBackup()
\* without arguments does not select a backup whose blob retention deleted.
C32_HeadConsistency ==
  (WellFormed(index) /\ Len(index.history) > 0)
    => LET head == index.history[1]
           flist == FileList(index, head.filePath)
       IN /\ Len(flist) > 0
          /\ flist[1].id = head.id
          /\ head.id \in DOMAIN blobs

\* the file a restoreBackup request is to write: the path given, or the path
\* of the newest entry of the history
ResolvedTarget(filePath) ==
  IF filePath # Null THEN PathResolve(filePath)
  ELSE IF WellFormed(index) /\ Len(index.history) > 0
       THEN index.history[1].filePath
       ELSE Null

\* C33: restoreBackup has no effect on the backup store: every call leaves
\* the in-memory index, the persisted index and the blobs as they were; a
\* call that fails changes no file, and a call that succeeds changes no file
\* other than the resolved target.
C33_RestoreFrame ==
  [][(last'.call = "restoreBackup" /\ now' = now)
       => /\ index' = index /\ diskIndex' = diskIndex /\ blobs' = blobs
          /\ ~last'.ret.ok => fs' = fs
          /\ last'.ret.ok
               => \A p \in AbsPaths \ {ResolvedTarget(last'.filePath)} :
                    fs'[p] = fs[p]]_vars

\* a restore that succeeded and changed the content of its target, with a
\* backup store that is not empty
C33_Witness ==
  /\ last.call = "restoreBackup" /\ last.ret.ok
  /\ fs # last.before
  /\ Len(index.history) = MaxBackups

\* the ids the per-file lists of the files other than abs name
IdsOfOthers(idx, abs) ==
  UNION {{idx.files[f][k].id : k \in 1..Len(idx.files[f])} :
         f \in DOMAIN idx.files \ {abs}}

\* C34: createBackup on file X touches only X's history: the per-file list
\* of every other file is as before, every blob an entry of another file
\* names is still there with its content, and no user file has changed.
C34_CreateBackupFrame ==
  [][(last'.call = "createBackup" /\ now' = now)
       => LET X == PathResolve(last'.filePath)
          IN /\ \A f \in DOMAIN index.files \ {X} :
                  /\ f \in DOMAIN index'.files
                  /\ index'.files[f] = index.files[f]
             /\ \A id \in IdsOfOthers(index, X) \cap DOMAIN blobs :
                  /\ id \in DOMAIN blobs'
                  /\ blobs'[id] = blobs[id]
             /\ fs' = fs]_vars

\* a backup of a.js that evicted the oldest entry of a.js while b.js has an
\* entry and its blob
C34_Witness ==
  /\ last.call = "createBackup" /\ last.ok
  /\ PathResolve(last.filePath) = FileA
  /\ Len(FileList(last.before.index, FileA)) = MaxFileBackups
  /\ Len(FileList(index, FileB)) > 0
  /\ IdsOfOthers(index, FileA) \subseteq DOMAIN blobs
  /\ DOMAIN last.before.blobs \ DOMAIN blobs # {}

\* C35: a failed createBackup changes nothing: when the copy of the file to
\* its blob fails, the call returns null, and the in-memory index, the
\* persisted index and the blobs are as before the call.
C35_FailedBackupFrame ==
  [][(/\ last'.call = "createBackup" /\ now' = now
      /\ (~last'.copyOk \/ ~IsFile(PathResolve(last'.filePath))))
       => /\ ~last'.ok /\ last'.id = NullId
          /\ index' = index
          /\ diskIndex' = diskIndex
          /\ blobs' = blobs]_vars

\* a createBackup whose copy failed, on a store that holds a backup
C35_Witness ==
  /\ last.call = "createBackup" /\ ~last.copyOk /\ ~last.ok
  /\ Len(index.history) > 0
  /\ DOMAIN blobs # {}
  /\ diskIndex = index

(***************************************************************************)
(* SpecTwice: the backup store with restoreBackup called a second time     *)
(* with the arguments of the call before it, nothing having been written   *)
(* in between.                                                             *)
(***************************************************************************)
\* restoreBackup called again with the arguments of the last call, which was
\* a restoreBackup; the record keeps what the first call met and returned
RestoreAgain ==
  /\ last.call = "restoreBackup"
  /\ LET r == restoreBackup(last.filePath, last.backupId, TRUE)
     IN /\ fs' = r.fs
        /\ last' = [call |-> "restoreAgain", filePath |-> last.filePath,
                    backupId |-> last.backupId, ret |-> r.ret,
                    before |-> fs, first |-> last.ret,
                    firstBefore |-> last.before]
  /\ UNCHANGED <<blobs, index, diskIndex, now, created, writes, chain, peer>>

TwiceCreateBackup ==
  /\ Len(created) < MaxBackups
  /\ \E p \in PathArgs : DoCreateBackup(p, "docstrings", TRUE, TRUE)

NextTwice ==
  TwiceCreateBackup \/ RestoreBackup \/ RestoreAgain \/ UserOverwrite \/ Tick

SpecTwice == Init /\ [][NextTwice]_vars

\* C36: restore is idempotent: a second restoreBackup with the same
\* arguments, with no call and no write in between, leaves every file as the
\* first call left it and returns what the first call returned (the same
\* filePath, timestamp and operation, or the same failure).
C36_RestoreIdempotent ==
  last.call = "restoreAgain"
    => /\ fs = last.before
       /\ last.ret = last.first

\* a second restore after a first one that succeeded and changed its target
C36_Witness ==
  /\ last.call = "restoreAgain"
  /\ last.ret.ok
  /\ last.firstBefore # last.before

\* C37: chain on a missing target: when chain was called on a path that does
\* not exist, it has returned, no token was looked at and no operation
\* called (the log is empty), no backup was made and no file was written.
C37_MissingTargetChain ==
  (chain.status # "idle" /\ chain.target = Gone)
    => /\ chain.status = "returned"
       /\ chain.log = <<>>
       /\ created = <<>> /\ blobs = [b \in {} |-> "A"]
       /\ index = EmptyIndex /\ diskIndex = EmptyIndex
       /\ \A p \in AbsPaths :
            fs[p] = IF p = DirD THEN IsDir ELSE IF p = Gone THEN NoFile ELSE "A"

\* chain was called on the missing path with continue-on-error set
C37_Witness ==
  /\ chain.status = "returned"
  /\ chain.target = Gone
  /\ chain.continueOnError

====
